---------------------------- MODULE Spec2Model ----------------------------
(***************************************************************************)
(* A model of terratools: the mantle domain fractions and the attenuation  *)
(* model of src/terratools/properties/attenuation.py, and the seismic      *)
(* lookup table of src/terratools/lookup_tables.py.                        *)
(*                                                                         *)
(* Numbers.  Pressures of mantle_domain_fractions are integers in units of *)
(* 1e5 Pa and temperatures integers in K, so that the Clapeyron relations  *)
(* (2.4e6 Pa/K, -2.2e6 Pa/K) stay integral.  A domain fraction is the      *)
(* integer numerator of a rational over the fixed denominator One (twice   *)
(* the half-width, the divisor of the code's blend fraction).  Every       *)
(* other real is an exact rational <<n, d>>, d >= 0, in lowest terms, with *)
(* <<1,0>> and <<-1,0>> the IEEE infinities and <<0,0>> NaN.  Floating     *)
(* point rounding is not modelled.                                         *)
(***************************************************************************)
EXTENDS Integers, Sequences, FiniteSets, TLC

VARIABLES
    mdf_call,    \* the last call of mantle_domain_fractions: its arguments
    mdf_ret,     \* ... and what it returned
    an_call,     \* the last call of anelastic_properties: its arguments
    an_ret,      \* ... its locals and what it returned
    an_inputs,   \* ... and the caller's argument arrays as the call left them
    engine,      \* the AttenuationModelGoes object: its Q_models
    table,       \* the rows np.genfromtxt handed to SeismicLookupTable.__init__
    self,        \* the SeismicLookupTable object
    q_call,      \* the last interp_grid / interp_points call: its arguments
    q_ret,       \* ... and its outcome
    q_inputs,    \* ... and the caller's press and temps as the call left them
    printed      \* the messages the last query printed

vars == <<mdf_call, mdf_ret, an_call, an_ret, an_inputs, engine, table, self,
          q_call, q_ret, q_inputs, printed>>

mdf_vars == <<mdf_call, mdf_ret>>
an_vars  == <<an_call, an_ret, an_inputs, engine>>
tab_vars == <<table, self, q_call, q_ret, q_inputs, printed>>

---------------------------------------------------------------------------
(* Bounds of the model.                                                    *)

\* the longest batch (numpy array) handed to a function
MaxBatch == 2
\* temperatures of mantle_domain_fractions: T_ref + 1425 * k, k in 0..MaxTk
MaxTk == 3
\* temperatures of anelastic_properties: 1..MaxTemperature
MaxTemperature == 5
\* the most unique pressures, and unique temperatures, of a well-formed table
MaxAxis == 3
\* the most rows of a table of arbitrary rows
MaxRows == 5
\* the longest sequence of pressures or temperatures handed to a query
MaxQuery == 2

---------------------------------------------------------------------------
(* Helpers.                                                                *)

Abs(n) == IF n < 0 THEN -n ELSE n

\* Euclid's algorithm, as a function: its arguments are values
GCD[a \in Nat, b \in Nat] == IF b = 0 THEN a ELSE GCD[b, a % b]

RECURSIVE SumSeq(_)
SumSeq(s) == IF s = <<>> THEN 0 ELSE Head(s) + SumSeq(Tail(s))

\* A function over 1..N as an explicit tuple: an array holds its elements,
\* it does not recompute them on each access.
Array(f) == f \o <<>>

SeqsUpTo(S, lo, hi) == UNION {[1..n -> S] : n \in lo..hi}

\* Exact rationals <<n, d>> with d >= 0, in lowest terms; d = 0 holds the
\* IEEE specials: <<1,0>> is +inf, <<-1,0>> is -inf, <<0,0>> is NaN.
Sign(n) == IF n < 0 THEN -1 ELSE IF n > 0 THEN 1 ELSE 0
Reduce(n, d, g) == <<Sign(d) * (n \div g), Abs(d) \div g>>
Rat(n, d) ==
    IF d = 0 THEN <<Sign(n), 0>> ELSE Reduce(n, d, GCD[Abs(n), Abs(d)])
RInt(n) == <<n, 1>>
RInf == <<1, 0>>
RZero == <<0, 1>>
RIsNaN(a) == a = <<0, 0>>
RMul(a, b) == Rat(a[1] * b[1], a[2] * b[2])
RAdd(a, b) ==
    IF a[2] = 0 \/ b[2] = 0
    THEN (IF a[2] = 0 /\ b[2] = 0
          THEN (IF a[1] = b[1] THEN a ELSE <<0, 0>>)
          ELSE IF a[2] = 0 THEN a ELSE b)
    ELSE Rat(a[1] * b[2] + b[1] * a[2], a[2] * b[2])
RNeg(a) == <<-a[1], a[2]>>
RSub(a, b) == RAdd(a, RNeg(b))
\* 1.0 / a: a zero is +0.0, whose reciprocal is +inf
RInv(a) ==
    IF RIsNaN(a) THEN a
    ELSE IF a[1] = 0 THEN RInf
    ELSE IF a[2] = 0 THEN RZero
    ELSE Rat(Sign(a[1]) * a[2], Abs(a[1]))
RDiv(a, b) ==
    IF b = RZero
    THEN (IF a[1] = 0 THEN <<0, 0>> ELSE <<Sign(a[1]), 0>>)
    ELSE RMul(a, RInv(b))
\* a < b; any comparison with NaN is false
RLt(a, b) ==
    /\ ~RIsNaN(a) /\ ~RIsNaN(b)
    /\ IF a[2] = 0 \/ b[2] = 0
       THEN \/ (a[2] = 0 /\ a[1] = -1 /\ b # a)
            \/ (b[2] = 0 /\ b[1] = 1 /\ b # a)
       ELSE a[1] * b[2] < b[1] * a[2]
RLe(a, b) == ~RIsNaN(a) /\ ~RIsNaN(b) /\ (a = b \/ RLt(a, b))

---------------------------------------------------------------------------
(* mantle_domain_fractions (attenuation.py 170-246).                       *)

P_smooth_halfwidth == 11000
T_ref == 750

pressure_tztop(temperature) == 111000 + 24 * (temperature - T_ref)
pressure_tzbase(temperature) == 261000 - 22 * (temperature - T_ref)

\* 1.0 as a fraction numerator: f = (P - (P_b - H)) / (2.0 * H)
One == 2 * P_smooth_halfwidth

\* the numerators of f_umtz and f_tzlm (lines 227-232; also the f of 208, 217)
f_umtz(pressure, temperature) ==
    pressure - (pressure_tztop(temperature) - P_smooth_halfwidth)
f_tzlm(pressure, temperature) ==
    pressure - (pressure_tzbase(temperature) - P_smooth_halfwidth)

\* The body of the try (lines 203-223): the if / elif chain on one (P, T).
ScalarBranch(pressure, temperature) ==
    IF pressure < pressure_tztop(temperature) - P_smooth_halfwidth
    THEN <<One, 0, 0>>
    ELSE IF pressure < pressure_tztop(temperature) + P_smooth_halfwidth
    THEN LET f == f_umtz(pressure, temperature) IN <<One - f, f, 0>>
    ELSE IF pressure < pressure_tzbase(temperature) - P_smooth_halfwidth
    THEN <<0, One, 0>>
    ELSE IF pressure < pressure_tzbase(temperature) + P_smooth_halfwidth
    THEN LET f == f_tzlm(pressure, temperature) IN <<0, One - f, f>>
    ELSE <<0, 0, One>>

\* Whether the scalar branch takes one of its two blend arms (lines 207, 216).
InBlendArm(pressure, temperature) ==
    /\ ~(pressure < pressure_tztop(temperature) - P_smooth_halfwidth)
    /\ \/ pressure < pressure_tztop(temperature) + P_smooth_halfwidth
       \/ /\ ~(pressure < pressure_tzbase(temperature) - P_smooth_halfwidth)
          /\ pressure < pressure_tzbase(temperature) + P_smooth_halfwidth

\* fractions[idx, col] = v, for the rows of idx
SetCol(fractions, idx, col, v) ==
    [k \in DOMAIN fractions |->
        IF k \in idx THEN [fractions[k] EXCEPT ![col] = v] ELSE fractions[k]]

\* fractions[idx, c:c+2] = np.array([1.0 - f[idx], f[idx]]).T
SetBlend(fractions, idx, col, f) ==
    [k \in DOMAIN fractions |->
        IF k \in idx
        THEN [fractions[k] EXCEPT ![col] = One - f[k], ![col + 1] = f[k]]
        ELSE fractions[k]]

\* The body of the except (lines 225-244): masks, then five assignments in
\* the order of the code, each over the rows its mask selects.
ArrayBranch(pressure, temperature) ==
    LET N        == Len(pressure)
        fu       == [k \in 1..N |-> f_umtz(pressure[k], temperature[k])]
        fl       == [k \in 1..N |-> f_tzlm(pressure[k], temperature[k])]
        um_idx   == {k \in 1..N : fu[k] <= 0}
        umtz_idx == {k \in 1..N : fu[k] >= 0 /\ fu[k] <= One}
        tz_idx   == {k \in 1..N : fu[k] >= One /\ fl[k] <= 0}
        tzlm_idx == {k \in 1..N : fl[k] >= 0 /\ fl[k] <= One}
        lm_idx   == {k \in 1..N : fl[k] >= One}
        z0       == [k \in 1..N |-> <<0, 0, 0>>]
        z1       == SetCol(z0, um_idx, 1, One)
        z2       == SetBlend(z1, umtz_idx, 1, fu)
        z3       == SetCol(z2, tz_idx, 2, One)
        z4       == SetBlend(z3, tzlm_idx, 2, fl)
    IN  SetCol(z4, lm_idx, 3, One)

\* mantle_domain_fractions on floats: the try runs to its end.  The result
\* is a vector (ndim 1).
mantle_domain_fractions_scalar(pressure, temperature) ==
    [ndim |-> 1, rows |-> <<ScalarBranch(pressure, temperature)>>]

\* mantle_domain_fractions on numpy arrays of N >= 1 elements.  With N >= 2
\* the first comparison of the try raises ValueError (the truth value of an
\* array) and the except runs.  A one-element array has a truth value: the
\* try runs on it; its pure arms return a vector of 3, its blend arms raise
\* ValueError (a (2,1) value for a slice of 2) and the except runs.
mantle_domain_fractions_array(pressure, temperature) ==
    IF Len(pressure) = 1 /\ ~InBlendArm(pressure[1], temperature[1])
    THEN [ndim |-> 1, rows |-> <<ScalarBranch(pressure[1], temperature[1])>>]
    ELSE [ndim |-> 2, rows |-> ArrayBranch(pressure, temperature)]

\* Inputs: temperatures below, at and beyond the temperature where the two
\* bands meet; pressures on, just below and just above each band edge.
MdfTemperatures == {T_ref + 1425 * k : k \in 0..MaxTk}
BandEdges(T) == {pressure_tztop(T) - P_smooth_halfwidth,
                 pressure_tztop(T) + P_smooth_halfwidth,
                 pressure_tzbase(T) - P_smooth_halfwidth,
                 pressure_tzbase(T) + P_smooth_halfwidth}
MdfPoints ==
    UNION {{<<e + d, T>> : e \in BandEdges(T), d \in {-1000, 0, 1000}} :
           T \in MdfTemperatures}

MdfIdle == [kind |-> "none"]
MdfNoResult == [ndim |-> 0, rows |-> <<>>]

\* A call starts from the idle state: the function keeps nothing between
\* calls, so one call at a time shows all it can do.
MdfScalarCall ==
    /\ mdf_call = MdfIdle
    /\ \E pt \in MdfPoints :
          /\ mdf_call' = [kind |-> "scalar", pressure |-> <<pt[1]>>,
                          temperature |-> <<pt[2]>>]
          /\ mdf_ret' = mantle_domain_fractions_scalar(pt[1], pt[2])
    /\ UNCHANGED <<an_vars, tab_vars>>

MdfArrayCall ==
    /\ mdf_call = MdfIdle
    /\ \E pts \in SeqsUpTo(MdfPoints, 1, MaxBatch) :
          LET P == [k \in 1..Len(pts) |-> pts[k][1]]
              T == [k \in 1..Len(pts) |-> pts[k][2]]
          IN  /\ mdf_call' = [kind |-> "array", pressure |-> P, temperature |-> T]
              /\ mdf_ret' = mantle_domain_fractions_array(P, T)
    /\ UNCHANGED <<an_vars, tab_vars>>

---------------------------------------------------------------------------
(* AttenuationModelGoes (attenuation.py 11-167).                           *)
(*                                                                         *)
(* The engine is built from a solidus function, a mixing function and a    *)
(* list of Q parameter sets (lines 30-32).  The model fixes one engine     *)
(* with small numbers: pressures are levels 1..3, temperatures small       *)
(* integers.  Its mixing function keeps the contract of its parameter (a   *)
(* vector of 3 weights summing to 1, one row per element for arrays).      *)
(* Every material has a = 1/2, as every engine of the source has one a     *)
(* for its three materials; then alpha = 1/2 and tan(pi*alpha/2) = 1, and  *)
(* frequency^a is exact for the square frequency of the model.            *)
(* np.exp has no rational values: np_exp is its second-order Taylor        *)
(* polynomial, positive and increasing on the arguments of the model.      *)

Q_models ==
    << [Q0 |-> 4, g |-> 2, a |-> <<1, 2>>, QK |-> 5],
       [Q0 |-> 2, g |-> 2, a |-> <<1, 2>>, QK |-> 5],
       [Q0 |-> 1, g |-> 4, a |-> <<1, 2>>, QK |-> 2] >>

\* the engine object after __init__ (line 32)
AttenuationModelGoes == [Q_models |-> Q_models]

T_solidus_function(pressure) == pressure + 1

model_mixing_function(pressure, temperature) ==
    IF pressure = 1 THEN <<RInt(1), RZero, RZero>>
    ELSE IF pressure = 2
    THEN (IF temperature < 3 THEN <<Rat(1, 2), Rat(1, 2), RZero>>
          ELSE <<RZero, Rat(1, 2), Rat(1, 2)>>)
    ELSE <<RZero, RZero, RInt(1)>>

np_exp(x) == RAdd(RAdd(RInt(1), x), RMul(Rat(1, 2), RMul(x, x)))

np_power(frequency, a) ==
    IF a = <<1, 2>>
    THEN RInt(CHOOSE r \in 0..frequency : r * r = frequency)
    ELSE IF a = RZero THEN RInt(1) ELSE <<0, 0>>

\* np.tan(np.pi * alpha / 2.0)
tan_half_pi(alpha) ==
    IF alpha = <<1, 2>> THEN RInt(1)
    ELSE IF alpha = RZero THEN RZero ELSE <<0, 0>>

RECURSIVE RSum(_)
RSum(s) == IF s = <<>> THEN RZero ELSE RAdd(RSum(SubSeq(s, 1, Len(s) - 1)), s[Len(s)])

\* Q0 * frequency^a * exp(a * g * Tm / Q_temperature) of material i
\* (lines 116-118 and 135-137)
QS_term(i, frequency, Tm, Q_temperature) ==
    LET Q_mod == Q_models[i]
    IN  RMul(RMul(RInt(Q_mod.Q0), np_power(frequency, Q_mod.a)),
             np_exp(RDiv(RMul(RMul(Q_mod.a, RInt(Q_mod.g)), RInt(Tm)),
                         RInt(Q_temperature))))

\* The three accumulations of the loop over the materials (lines 113-121
\* and 132-140), for the fractions f of one element.
QS_mix(f, frequency, Tm, Q_temperature) ==
    RSum(Array([i \in 1..Len(f) |-> RMul(f[i], QS_term(i, frequency, Tm, Q_temperature))]))
QK_mix(f) == RSum(Array([i \in 1..Len(f) |-> RMul(f[i], RInt(Q_models[i].QK))]))
alpha_mix(f) == RSum(Array([i \in 1..Len(f) |-> RMul(f[i], Q_models[i].a)]))

\* lmda = 4/3 * (elastic_Vs / elastic_Vp)^2 (line 145)
lmda(elastic_Vp, elastic_Vs) ==
    RMul(Rat(4, 3), RMul(Rat(elastic_Vs, elastic_Vp), Rat(elastic_Vs, elastic_Vp)))

\* invQP = (1 - lmda) * invQK + lmda * invQS (line 146)
invQP_of(l, invQK, invQS) ==
    RAdd(RMul(RSub(RInt(1), l), invQK), RMul(l, invQS))

\* elastic_V * (1 - invQ / (2 tan(pi alpha / 2))) (lines 162-163)
anelastic_V(elastic_V, invQ, alpha) ==
    RMul(RInt(elastic_V),
         RSub(RInt(1), RDiv(invQ, RMul(RInt(2), tan_half_pi(alpha)))))

\* The freeze of the scalar branch (lines 105-108).
ScalarFreeze(temperature, Tm, dT) ==
    IF dT < temperature - Tm THEN Tm + dT ELSE temperature

\* The clamp of the scalar branch (lines 149-153): <<invQP, QP>>.
ScalarClamp(invQP) ==
    IF RLt(invQP, RZero) THEN <<RZero, RInf>> ELSE <<invQP, RInv(invQP)>>

\* Lines 142-146 for one element, from the QS, QK of the loop:
\* <<invQS, invQP>>.
InverseQ(elastic_Vp, elastic_Vs, QS, QK) ==
    <<RInv(QS), invQP_of(lmda(elastic_Vp, elastic_Vs), RInv(QK), RInv(QS))>>

\* Lines 162-167: the velocities and the named tuple, from the locals.
\* Q_temperature and the invQP before and after the clamp are locals of the
\* code; the model keeps them beside the tuple's fields.
AnelasticProperties(elastic_Vp, elastic_Vs, Tm, Q_temperature, QS, QK, alpha, inv, clamp) ==
    [Q_temperature |-> Q_temperature, raw_invQP |-> inv[2], invQP |-> clamp[1],
     V_P |-> anelastic_V(elastic_Vp, clamp[1], alpha),
     V_S |-> anelastic_V(elastic_Vs, inv[1], alpha),
     Q_S |-> QS, Q_K |-> QK, Q_P |-> clamp[2], T_solidus |-> Tm]

\* Lines 142-167 after the scalar loop.
ScalarTail(elastic_Vp, elastic_Vs, Tm, Q_temperature, QS, QK, alpha, inv) ==
    AnelasticProperties(elastic_Vp, elastic_Vs, Tm, Q_temperature, QS, QK, alpha,
                        inv, ScalarClamp(inv[2]))

\* Lines 142-146 after the scalar loop.
ScalarInverse(elastic_Vp, elastic_Vs, Tm, Q_temperature, QS, QK, alpha) ==
    ScalarTail(elastic_Vp, elastic_Vs, Tm, Q_temperature, QS, QK, alpha,
               InverseQ(elastic_Vp, elastic_Vs, QS, QK))

\* Lines 110-121 and on, with the fractions, Tm and Q_temperature known.
ScalarLoop(elastic_Vp, elastic_Vs, fractions, Tm, Q_temperature, frequency) ==
    ScalarInverse(elastic_Vp, elastic_Vs, Tm, Q_temperature,
                  QS_mix(fractions, frequency, Tm, Q_temperature),
                  QK_mix(fractions), alpha_mix(fractions))

\* anelastic_properties on floats: both try blocks run to their ends.
anelastic_properties_scalar(elastic_Vp, elastic_Vs, pressure, temperature, frequency, dT) ==
    ScalarLoop(elastic_Vp, elastic_Vs,
               model_mixing_function(pressure, temperature),
               T_solidus_function(pressure),
               ScalarFreeze(temperature, T_solidus_function(pressure), dT),
               frequency)

\* A freeze decided on the aggregate: every element is frozen as soon as one
\* element is above its solidus by more than dT.
ArrayFreeze_aggregate(temperature, Tm, dT) ==
    LET any == \E k \in DOMAIN temperature : temperature[k] > Tm[k] + dT
    IN  Array([k \in DOMAIN temperature |->
                  IF any THEN Tm[k] + dT ELSE temperature[k]])

\* The freeze of the array branch (lines 124-127): a copy of temperature,
\* overwritten at the indices where temperature > Tm + dT.
ArrayFreeze(temperature, Tm, dT) ==
    LET idx == {k \in DOMAIN temperature : temperature[k] > Tm[k] + dT}
    IN  Array([k \in DOMAIN temperature |->
            IF k \in idx THEN Tm[k] + dT ELSE temperature[k]])

\* A freeze without the copy of line 124: Q_temperature is the caller's
\* array, and the write of line 127 lands in it.
ArrayFreezeObjects_no_copy(temperature, Tm, dT) ==
    [temperature |-> ArrayFreeze(temperature, Tm, dT),
     Q_temperature |-> ArrayFreeze(temperature, Tm, dT)]

\* The two arrays after lines 124-127: Q_temperature is a deepcopy of
\* temperature, so the indexed write of line 127 lands in the copy.
ArrayFreezeObjects(temperature, Tm, dT) ==
    [temperature |-> temperature,
     Q_temperature |-> ArrayFreeze(temperature, Tm, dT)]

\* The caller's four arrays after a batched call.  The indexed writes of
\* the array branch are those of lines 127 (Q_temperature), 158-160 (invQP
\* and QP, arrays made by lines 146 and 155) and the += of lines 134-140
\* (QS, QK, alpha, made by np.zeros_like); the elastic velocities and the
\* pressure are only read.
ArrayInputsAfter(elastic_Vp, elastic_Vs, pressure, temperature, dT) ==
    [elastic_Vp |-> elastic_Vp, elastic_Vs |-> elastic_Vs, pressure |-> pressure,
     temperature |->
         ArrayFreezeObjects(temperature,
             Array([k \in DOMAIN pressure |-> T_solidus_function(pressure[k])]),
             dT).temperature]

\* A clamp whose first mask is invQP < 0: an element with invQP = 0 is in
\* neither mask and keeps the 0 of np.zeros_like.
ArrayClamp_strict(invQP) ==
    LET idx1 == {k \in DOMAIN invQP : RLt(invQP[k], RZero)}
    IN  <<Array([k \in DOMAIN invQP |-> IF k \in idx1 THEN RZero ELSE invQP[k]]),
          Array([k \in DOMAIN invQP |->
                    IF k \in idx1 THEN RInf
                    ELSE IF RLt(RZero, invQP[k]) THEN RInv(invQP[k]) ELSE RZero])>>

\* The clamp of the array branch (lines 155-160): QP starts as zeros; the
\* elements with invQP <= 0 get invQP 0 and QP inf; then those with
\* invQP > 0 get QP = 1 / invQP.
ArrayClamp(invQP) ==
    LET QP0    == Array([k \in DOMAIN invQP |-> RZero])
        idx1   == {k \in DOMAIN invQP : RLe(invQP[k], RZero)}
        invQP1 == Array([k \in DOMAIN invQP |-> IF k \in idx1 THEN RZero ELSE invQP[k]])
        QP1    == Array([k \in DOMAIN invQP |-> IF k \in idx1 THEN RInf ELSE QP0[k]])
        idx2   == {k \in DOMAIN invQP : RLt(RZero, invQP1[k])}
        QP2    == Array([k \in DOMAIN invQP |->
                      IF k \in idx2 THEN RInv(invQP1[k]) ELSE QP1[k]])
    IN  <<invQP1, QP2>>

\* Lines 142-167 after the array loop, element-wise, with the array clamp.
ArrayTail(elastic_Vp, elastic_Vs, Tm, Q_temperature, QS, QK, alpha, inv, clamp) ==
    [Q_temperature |-> Q_temperature,
     raw_invQP |-> Array([k \in DOMAIN Tm |-> inv[k][2]]),
     invQP |-> clamp[1],
     V_P |-> Array([k \in DOMAIN Tm |-> anelastic_V(elastic_Vp[k], clamp[1][k], alpha[k])]),
     V_S |-> Array([k \in DOMAIN Tm |-> anelastic_V(elastic_Vs[k], inv[k][1], alpha[k])]),
     Q_S |-> QS, Q_K |-> QK, Q_P |-> clamp[2], T_solidus |-> Tm]

ArrayInverse(elastic_Vp, elastic_Vs, Tm, Q_temperature, QS, QK, alpha, inv) ==
    ArrayTail(elastic_Vp, elastic_Vs, Tm, Q_temperature, QS, QK, alpha, inv,
              ArrayClamp(Array([k \in DOMAIN Tm |-> inv[k][2]])))

\* Lines 129-140 and on: the loop over fractions.T, element-wise.
ArrayLoop(elastic_Vp, elastic_Vs, fractions, Tm, Q_temperature, frequency, QS, QK) ==
    ArrayInverse(elastic_Vp, elastic_Vs, Tm, Q_temperature, QS, QK,
                 Array([k \in DOMAIN Tm |-> alpha_mix(fractions[k])]),
                 Array([k \in DOMAIN Tm |->
                     InverseQ(elastic_Vp[k], elastic_Vs[k], QS[k], QK[k])]))

ArrayMix(elastic_Vp, elastic_Vs, fractions, Tm, Q_temperature, frequency) ==
    ArrayLoop(elastic_Vp, elastic_Vs, fractions, Tm, Q_temperature, frequency,
              Array([k \in DOMAIN Tm |->
                  QS_mix(fractions[k], frequency, Tm[k], Q_temperature[k])]),
              Array([k \in DOMAIN Tm |-> QK_mix(fractions[k])]))

\* anelastic_properties on arrays of N >= 2 elements: float(pressure)
\* raises TypeError and "if invQP < 0.0" raises ValueError, so both except
\* blocks run.
anelastic_properties_array(elastic_Vp, elastic_Vs, pressure, temperature, frequency, dT) ==
    ArrayMix(elastic_Vp, elastic_Vs,
             Array([k \in DOMAIN pressure |->
                 model_mixing_function(pressure[k], temperature[k])]),
             Array([k \in DOMAIN pressure |-> T_solidus_function(pressure[k])]),
             ArrayFreeze(temperature,
                         Array([k \in DOMAIN pressure |-> T_solidus_function(pressure[k])]),
                         dT),
             frequency)

\* Inputs of the model.
AnElements ==
    [elastic_Vp : {2}, elastic_Vs : {1, 2}, pressure : 1..3,
     temperature : 1..MaxTemperature]
AnFrequencies == {4}
AnOffsets == {0, 1}

\* The batches: every pair of elements, and the longer ones a pair followed
\* by elements of AnPadding (one below its solidus, one frozen).
AnPadding ==
    {e \in AnElements :
        e.elastic_Vs = 2 /\ e.pressure = 2 /\ e.temperature \in {1, MaxTemperature}}
AnBatches ==
    {pair \o pad : pair \in SeqsUpTo(AnElements, 2, 2),
                   pad \in SeqsUpTo(AnPadding, 0, MaxBatch - 2)}

AnIdle == [kind |-> "none"]
\* no lookup-table query in progress
QueryIdle == [op |-> "none"]

Column(es, field) == Array([k \in DOMAIN es |-> es[k][field]])

\* The program is single-threaded: a call starts when no other is in
\* progress.  The scalar branch writes no element of any array (it rebinds
\* its locals), and no branch assigns to the engine.
AnScalarCall ==
    /\ an_call = AnIdle
    /\ q_call = QueryIdle
    /\ \E e \in AnElements, frequency \in AnFrequencies, dT \in AnOffsets :
          /\ an_call' = [kind |-> "scalar", elements |-> <<e>>,
                         frequency |-> frequency, dT |-> dT]
          /\ an_ret' = anelastic_properties_scalar(e.elastic_Vp, e.elastic_Vs,
                            e.pressure, e.temperature, frequency, dT)
          /\ an_inputs' = [elastic_Vp |-> <<e.elastic_Vp>>,
                           elastic_Vs |-> <<e.elastic_Vs>>,
                           pressure |-> <<e.pressure>>,
                           temperature |-> <<e.temperature>>]
    /\ UNCHANGED <<mdf_vars, tab_vars, engine>>

AnArrayCall ==
    /\ an_call = AnIdle
    /\ q_call = QueryIdle
    /\ \E es \in AnBatches,
          frequency \in AnFrequencies, dT \in AnOffsets :
          /\ an_call' = [kind |-> "array", elements |-> es,
                         frequency |-> frequency, dT |-> dT]
          /\ an_ret' = anelastic_properties_array(Column(es, "elastic_Vp"),
                            Column(es, "elastic_Vs"), Column(es, "pressure"),
                            Column(es, "temperature"), frequency, dT)
          /\ an_inputs' = ArrayInputsAfter(Column(es, "elastic_Vp"),
                            Column(es, "elastic_Vs"), Column(es, "pressure"),
                            Column(es, "temperature"), dT)
    /\ UNCHANGED <<mdf_vars, tab_vars, engine>>

AnReturn ==
    /\ an_call # AnIdle
    /\ an_call' = AnIdle
    /\ an_ret' = AnIdle
    /\ an_inputs' = AnIdle
    /\ UNCHANGED <<mdf_vars, tab_vars, engine>>

---------------------------------------------------------------------------
(* SeismicLookupTable (lookup_tables.py 7-175, 291-306).                   *)
(*                                                                         *)
(* A table row is <<pressure, temperature, vp, vs>>: the row's columns 0   *)
(* to 3.  The code fills eight grids from columns 2 to 9 by eight copies   *)
(* of one statement; the model keeps the first two, "vp" and "vs".         *)
(* Python's indices start at 0 and the model's at 1.                       *)

Min(a, b) == IF a < b THEN a ELSE b
Max(a, b) == IF a > b THEN a ELSE b
Range(s) == {s[k] : k \in DOMAIN s}

\* np.unique: the distinct values, ascending
np_unique(s) ==
    Array([k \in 1..Cardinality(Range(s)) |->
              CHOOSE v \in Range(s) : Cardinality({u \in Range(s) : u < v}) = k - 1])

\* np.sort
np_sort(s) ==
    Array([k \in 1..Len(s) |->
              CHOOSE v \in Range(s) :
                  /\ Cardinality({i \in DOMAIN s : s[i] < v}) < k
                  /\ k <= Cardinality({i \in DOMAIN s : s[i] <= v})])

\* the field names and their table columns (lines 92-101)
FieldColumn(field) == IF field = "vp" THEN 3 ELSE 4
Fields == {"vp", "vs"}

\* self.table[lo : hi, col], lo and hi counted from 0 as in Python: a slice
\* is cut to the rows the table has
TableSlice(tab, lo, hi, col) ==
    Array([k \in 1..(Min(hi, Len(tab)) - Min(lo, Len(tab))) |-> tab[lo + k][col]])

\* Whether numpy accepts "grid[:, i] = block" for a column of pstep cells:
\* a block of pstep values fits and a block of one value is broadcast;
\* any other length raises ValueError.
Assignable(block, pstep) == Len(block) = pstep \/ Len(block) = 1

\* the column after the assignment
FilledColumn(block, pstep) ==
    Array([j \in 1..pstep |-> IF Len(block) = 1 THEN block[1] ELSE block[j]])

\* A fill that takes the table as pressure-fastest: cell [j, i] from row
\* j * n_uniq_p + i.
FieldGrid_pressure_fastest(tab, n_uniq_p, pstep, col) ==
    Array([j \in 1..pstep |->
              Array([i \in 1..n_uniq_p |->
                        LET r == (j - 1) * n_uniq_p + i
                        IN  IF r \in DOMAIN tab THEN tab[r][col] ELSE 0])])

\* The loop of lines 65-89 for one field: grid[j][i] for temperature index j
\* and pressure index i, column i taken from block i of the table.
FieldGrid(tab, n_uniq_p, pstep, col) ==
    Array([j \in 1..pstep |->
              Array([i \in 1..n_uniq_p |->
                        FilledColumn(TableSlice(tab, (i - 1) * pstep, i * pstep, col),
                                     pstep)[j]])])

\* SeismicLookupTable.__init__ from line 42 on, on the rows of the file.
SeismicLookupTable(tab) ==
    LET pres     == np_unique(Array([r \in DOMAIN tab |-> tab[r][1]]))
        temp     == np_unique(Array([r \in DOMAIN tab |-> tab[r][2]]))
        n_uniq_p == Len(pres)
        pstep    == Len(temp)
    IN  IF \A i \in 1..n_uniq_p :
              Assignable(TableSlice(tab, (i - 1) * pstep, i * pstep, 3), pstep)
        THEN [status |-> "built", pres |-> pres, temp |-> temp,
              n_uniq_p |-> n_uniq_p, n_uniq_t |-> Len(temp), pstep |-> pstep,
              p_min |-> pres[1], p_max |-> pres[n_uniq_p],
              t_min |-> temp[1], t_max |-> temp[pstep],
              fields |-> [f \in Fields |->
                             FieldGrid(tab, n_uniq_p, pstep, FieldColumn(f))]]
        ELSE [status |-> "ValueError"]

\* scipy's interp2d(x, y, z), kind "linear", fill_value None, evaluated at
\* one point: the argument is moved into the range of its axis (the
\* nearest-neighbour rule of fill_value None), the cell that holds it is
\* found, and the four corner values are blended linearly.
Clamp(v, axis) == Max(axis[1], Min(v, axis[Len(axis)]))
Cell(v, axis) ==
    CHOOSE i \in 1..(Len(axis) - 1) :
        /\ axis[i] <= v
        /\ v <= axis[i + 1]
        /\ \A m \in 1..(Len(axis) - 1) : (axis[m] <= v /\ v <= axis[m + 1]) => m <= i
Bilinear(x, y, z, xq, yq, i, j) ==
    Rat(  z[j][i]         * (x[i + 1] - xq) * (y[j + 1] - yq)
        + z[j][i + 1]     * (xq - x[i])     * (y[j + 1] - yq)
        + z[j + 1][i]     * (x[i + 1] - xq) * (yq - y[j])
        + z[j + 1][i + 1] * (xq - x[i])     * (yq - y[j]),
        (x[i + 1] - x[i]) * (y[j + 1] - y[j]))
interp2d_at(x, y, z, xq, yq) ==
    Bilinear(x, y, z, Clamp(xq, x), Clamp(yq, y),
             Cell(Clamp(xq, x), x), Cell(Clamp(yq, y), y))

\* interp2d.__call__(xq, yq): both arguments are sorted, the values come as
\* len(yq) rows of len(xq) columns, and a result of one row is returned as
\* that row (a 1-D array).
interp2d_matrix(x, y, z, xs, ys) ==
    Array([j \in 1..Len(ys) |->
              Array([i \in 1..Len(xs) |-> interp2d_at(x, y, z, xs[i], ys[j])])])
interp2d_call(x, y, z, xq, yq) ==
    IF Len(yq) = 1
    THEN [ndim |-> 1, data |-> interp2d_matrix(x, y, z, np_sort(xq), yq)[1]]
    ELSE [ndim |-> 2, data |-> interp2d_matrix(x, y, z, np_sort(xq), np_sort(yq))]

\* A bounds check that also reports a value equal to a bound.
check_bounds_inclusive(input, check, TP) ==
    (IF \E k \in DOMAIN input : input[k] >= check[Len(check)]
     THEN << <<TP, "exceeds">> >> ELSE <<>>)
    \o (IF \E k \in DOMAIN input : input[k] <= check[1]
        THEN << <<TP, "below">> >> ELSE <<>>)

\* _check_bounds (lines 291-306): the messages it prints, in order.
check_bounds(input, check, TP) ==
    (IF \E k \in DOMAIN input : input[k] > check[Len(check)]
     THEN << <<TP, "exceeds">> >> ELSE <<>>)
    \o (IF \E k \in DOMAIN input : input[k] < check[1]
        THEN << <<TP, "below">> >> ELSE <<>>)

\* A query argument is a Python float or a sequence (v holds the float's
\* value, boxed, or the elements); lines 135-136 and 163-164 turn a float
\* into a list of one.
Promote(arg) == IF arg.type = "float" THEN <<arg.v[1]>> ELSE arg.v

\* interp_grid (lines 135-143) after the bounds checks
interp_grid(obj, press, temps, field) ==
    LET r == interp2d_call(obj.pres, obj.temp, obj.fields[field], press, temps)
    IN  [op |-> "interp_grid", status |-> "ok", ndim |-> r.ndim, data |-> r.data]

\* An interp_points that hands the interpolant temperature first.
interp_points_swapped(obj, press, temps, field) ==
    IF Len(temps) < Len(press)
    THEN [op |-> "interp_points", status |-> "IndexError", ndim |-> 0, data |-> <<>>]
    ELSE [op |-> "interp_points", status |-> "ok", ndim |-> 1,
          data |-> Array([i \in 1..Len(press) |->
                            interp2d_call(obj.pres, obj.temp, obj.fields[field],
                                          <<temps[i]>>, <<press[i]>>).data[1]])]

\* interp_points (lines 163-175) after the bounds checks: one call of the
\* interpolant per index of press; temps[i] raises IndexError when temps is
\* the shorter.
interp_points(obj, press, temps, field) ==
    IF Len(temps) < Len(press)
    THEN [op |-> "interp_points", status |-> "IndexError", ndim |-> 0, data |-> <<>>]
    ELSE [op |-> "interp_points", status |-> "ok", ndim |-> 1,
          data |-> Array([i \in 1..Len(press) |->
                            interp2d_call(obj.pres, obj.temp, obj.fields[field],
                                          <<press[i]>>, <<temps[i]>>).data[1]])]

\* Tables.  The axes of the model.
PValue(i) == 10 * i
TValue(j) == 4 * j
\* Two assignments of field values to the rows of a file, by row number.
FieldValue(pat, r, col) ==
    IF pat = 1 THEN (IF col = 3 THEN 2 * r ELSE 20 - r)
    ELSE (IF col = 3 THEN (r * r) % 7 ELSE r % 3)
Patterns == {1, 2}

\* the well-formed table of np pressures and nt temperatures: ascending
\* pressures, each with the same ascending temperatures
WellFormedTable(np, nt, pat) ==
    Array([r \in 1..(np * nt) |->
              <<PValue(((r - 1) \div nt) + 1), TValue(((r - 1) % nt) + 1),
                FieldValue(pat, r, 3), FieldValue(pat, r, 4)>>])
WellFormedTables ==
    {WellFormedTable(np, nt, pat) : np \in 2..MaxAxis, nt \in 2..MaxAxis, pat \in Patterns}

\* every file of up to MaxRows rows over two pressures and two
\* temperatures that holds both of each (interp2d needs two points on
\* each axis; what it does with fewer is outside the model)
ArbitraryTables ==
    {Array([r \in DOMAIN keys |->
               <<keys[r][1], keys[r][2], FieldValue(pat, r, 3), FieldValue(pat, r, 4)>>]) :
        keys \in {ks \in SeqsUpTo({PValue(1), PValue(2)} \X {TValue(1), TValue(2)}, 2, MaxRows) :
                     /\ Cardinality({ks[r][1] : r \in DOMAIN ks}) = 2
                     /\ Cardinality({ks[r][2] : r \in DOMAIN ks}) = 2},
        pat \in Patterns}

\* The ordering invariant of a RawTable: rows grouped by ascending pressure,
\* each group holding the same ascending temperatures.
IsWellFormed(tab) ==
    LET pres == np_unique(Array([r \in DOMAIN tab |-> tab[r][1]]))
        temp == np_unique(Array([r \in DOMAIN tab |-> tab[r][2]]))
    IN  /\ Len(tab) = Len(pres) * Len(temp)
        /\ \A i \in 1..Len(pres), j \in 1..Len(temp) :
              /\ tab[(i - 1) * Len(temp) + j][1] = pres[i]
              /\ tab[(i - 1) * Len(temp) + j][2] = temp[j]

TableIdle == [status |-> "unbuilt"]

\* SeismicLookupTable(table_path)
Construct ==
    /\ self = TableIdle
    /\ self' = SeismicLookupTable(table)
    /\ UNCHANGED <<mdf_vars, an_vars, table, q_call, q_ret, q_inputs, printed>>

\* Query arguments: every grid value, a value below, between and above the
\* grid values as a float or a list of one; longer lists over the off-grid
\* values and the two ends.
OffGrid(axis, d) == {axis[1] - d, axis[1] + d, axis[Len(axis)] + d}
QueryArgs(axis, d) ==
    {[type |-> "float", v |-> <<v>>] : v \in Range(axis) \cup OffGrid(axis, d)}
    \cup {[type |-> "list", v |-> <<v>>] : v \in Range(axis) \cup OffGrid(axis, d)}
    \cup {[type |-> "list", v |-> vs] : vs \in SeqsUpTo(OffGrid(axis, d), 2, MaxQuery)}

\* interp_grid(press, temps, field), lines 135-143.  Neither query assigns
\* an attribute of self or an element of self.pres, self.temp or a grid;
\* press and temps are rebound (lines 135-136, 163-164), read by
\* _check_bounds and handed to the interpolant, which sorts copies of them.
InterpGrid ==
    /\ self.status = "built"
    /\ q_call = QueryIdle
    /\ an_call = AnIdle
    /\ \E press \in QueryArgs(self.pres, 5), temps \in QueryArgs(self.temp, 2),
          field \in Fields :
          /\ q_call' = [op |-> "interp_grid", press |-> press, temps |-> temps,
                        field |-> field]
          /\ printed' = check_bounds(Promote(press), self.pres, "pressure")
                         \o check_bounds(Promote(temps), self.temp, "temperature")
          /\ q_ret' = interp_grid(self, Promote(press), Promote(temps), field)
          /\ q_inputs' = [press |-> press, temps |-> temps]
    /\ UNCHANGED <<mdf_vars, an_vars, table, self>>

\* interp_points(press, temps, field), lines 163-175
InterpPoints ==
    /\ self.status = "built"
    /\ q_call = QueryIdle
    /\ an_call = AnIdle
    /\ \E press \in QueryArgs(self.pres, 5), temps \in QueryArgs(self.temp, 2),
          field \in Fields :
          /\ q_call' = [op |-> "interp_points", press |-> press, temps |-> temps,
                        field |-> field]
          /\ printed' = check_bounds(Promote(press), self.pres, "pressure")
                         \o check_bounds(Promote(temps), self.temp, "temperature")
          /\ q_ret' = interp_points(self, Promote(press), Promote(temps), field)
          /\ q_inputs' = [press |-> press, temps |-> temps]
    /\ UNCHANGED <<mdf_vars, an_vars, table, self>>

\* The caller drops the result; the table object stays.
QueryReturn ==
    /\ q_call # QueryIdle
    /\ q_call' = QueryIdle
    /\ q_ret' = QueryIdle
    /\ q_inputs' = QueryIdle
    /\ printed' = <<>>
    /\ UNCHANGED <<mdf_vars, an_vars, table, self>>

---------------------------------------------------------------------------
(* The specifications.                                                     *)

InitFractions ==
    /\ mdf_call = MdfIdle
    /\ mdf_ret = MdfNoResult
    /\ an_call = AnIdle
    /\ an_ret = AnIdle
    /\ an_inputs = AnIdle
    /\ engine = AttenuationModelGoes
    /\ table = <<>>
    /\ self = TableIdle
    /\ q_call = QueryIdle
    /\ q_ret = QueryIdle
    /\ q_inputs = QueryIdle
    /\ printed = <<>>

\* The caller drops the result.
MdfReturn ==
    /\ mdf_call # MdfIdle
    /\ mdf_call' = MdfIdle
    /\ mdf_ret' = MdfNoResult
    /\ UNCHANGED <<an_vars, tab_vars>>

NextFractions == MdfScalarCall \/ MdfArrayCall \/ MdfReturn

SpecFractions == InitFractions /\ [][NextFractions]_vars

\* The attenuation engine alone.
NextAnelastic == AnScalarCall \/ AnArrayCall \/ AnReturn

SpecAnelastic == InitFractions /\ [][NextAnelastic]_vars

\* Construction alone, from every file of the model.
InitBuild ==
    /\ mdf_call = MdfIdle
    /\ mdf_ret = MdfNoResult
    /\ an_call = AnIdle
    /\ an_ret = AnIdle
    /\ an_inputs = AnIdle
    /\ engine = AttenuationModelGoes
    /\ table \in WellFormedTables \cup ArbitraryTables
    /\ self = TableIdle
    /\ q_call = QueryIdle
    /\ q_ret = QueryIdle
    /\ q_inputs = QueryIdle
    /\ printed = <<>>

SpecBuild == InitBuild /\ [][Construct]_vars

\* A lookup table over a well-formed file, built and then queried.
Init ==
    /\ mdf_call = MdfIdle
    /\ mdf_ret = MdfNoResult
    /\ an_call = AnIdle
    /\ an_ret = AnIdle
    /\ an_inputs = AnIdle
    /\ engine = AttenuationModelGoes
    /\ table \in WellFormedTables
    /\ self = TableIdle
    /\ q_call = QueryIdle
    /\ q_ret = QueryIdle
    /\ q_inputs = QueryIdle
    /\ printed = <<>>

Next == Construct \/ InterpGrid \/ InterpPoints \/ QueryReturn

Spec == Init /\ [][Next]_vars

\* An engine and a built lookup table, queried in any order, one call at a
\* time.
QueryTables == {WellFormedTable(2, MaxAxis, 1)}
InitQueries ==
    /\ mdf_call = MdfIdle
    /\ mdf_ret = MdfNoResult
    /\ an_call = AnIdle
    /\ an_ret = AnIdle
    /\ an_inputs = AnIdle
    /\ engine = AttenuationModelGoes
    /\ table \in QueryTables
    /\ self = SeismicLookupTable(table)
    /\ q_call = QueryIdle
    /\ q_ret = QueryIdle
    /\ q_inputs = QueryIdle
    /\ printed = <<>>

NextQueries ==
    \/ InterpGrid \/ InterpPoints \/ QueryReturn
    \/ AnScalarCall \/ AnArrayCall \/ AnReturn

SpecQueries == InitQueries /\ [][NextQueries]_vars

---------------------------------------------------------------------------
(* Claims about mantle_domain_fractions.                                   *)

InUnit(x) == 0 <= x /\ x <= One

\* C1: whatever the pressure and temperature, every fraction vector the
\* function returns (the vector of a scalar call, each row of a batched
\* call) has its three fractions in [0,1] and summing to exactly 1.
C1_FractionsSumToOne ==
    \A k \in DOMAIN mdf_ret.rows :
        /\ \A c \in 1..3 : InUnit(mdf_ret.rows[k][c])
        /\ SumSeq(mdf_ret.rows[k]) = One

\* C2: row k of a batched result is the vector the scalar call returns on
\* (P[k], T[k]).
C2_ArrayEqualsScalar ==
    mdf_call.kind = "array" =>
        \A k \in DOMAIN mdf_ret.rows :
            mdf_ret.rows[k] =
                mantle_domain_fractions_scalar(mdf_call.pressure[k],
                                               mdf_call.temperature[k]).rows[1]

\* C11: at a fixed temperature the weight moves from UM to TZ to LM as the
\* pressure grows: of two results at the same temperature (two rows of a
\* batched call, or a scalar call and the scalar call at a higher pressure)
\* the one at the higher pressure has no more UM and no less LM, and a
\* result has LM only where it has no UM.
C11_MonotoneInPressure ==
    mdf_call.kind # "none" =>
        /\ \A k \in DOMAIN mdf_ret.rows :
              mdf_ret.rows[k][3] # 0 => mdf_ret.rows[k][1] = 0
        /\ \A k1, k2 \in DOMAIN mdf_ret.rows :
              (/\ mdf_call.temperature[k1] = mdf_call.temperature[k2]
               /\ mdf_call.pressure[k1] <= mdf_call.pressure[k2]) =>
                  /\ mdf_ret.rows[k2][1] <= mdf_ret.rows[k1][1]
                  /\ mdf_ret.rows[k2][3] >= mdf_ret.rows[k1][3]
        /\ mdf_call.kind = "scalar" =>
              \A pt \in MdfPoints :
                  (/\ pt[2] = mdf_call.temperature[1]
                   /\ mdf_call.pressure[1] <= pt[1]) =>
                      LET higher == mantle_domain_fractions_scalar(pt[1], pt[2]).rows[1]
                      IN  /\ higher[1] <= mdf_ret.rows[1][1]
                          /\ higher[3] >= mdf_ret.rows[1][3]

---------------------------------------------------------------------------
(* Claims about anelastic_properties.                                      *)

\* element k of a result field: the field itself for a scalar call
Elem(x, k) == IF an_call.kind = "scalar" THEN x ELSE x[k]

\* the scalar call on element k of the last call
ScalarOn(k) ==
    LET e == an_call.elements[k]
    IN  anelastic_properties_scalar(e.elastic_Vp, e.elastic_Vs, e.pressure,
                                    e.temperature, an_call.frequency, an_call.dT)

\* C3: the temperature at which Q_S is evaluated is Tm + freeze_offset for
\* an element with T - Tm > freeze_offset and T otherwise (T - Tm equal to
\* the offset is not frozen); a batched call decides it element by element,
\* as the scalar call on that element does.
C3_FreezePerElement ==
    an_call.kind # "none" =>
        \A k \in DOMAIN an_call.elements :
            LET e  == an_call.elements[k]
                Tm == T_solidus_function(e.pressure)
            IN  /\ Elem(an_ret.T_solidus, k) = Tm
                /\ Elem(an_ret.Q_temperature, k) =
                       (IF e.temperature - Tm > an_call.dT
                        THEN Tm + an_call.dT ELSE e.temperature)
                /\ Elem(an_ret.Q_temperature, k) = ScalarOn(k).Q_temperature

\* C3's case: a batch with a frozen element and an element exactly at the
\* offset, which keeps its own temperature.
C3_Witness ==
    /\ an_call.kind = "array"
    /\ \E k \in DOMAIN an_call.elements :
          /\ an_call.elements[k].temperature
                 - T_solidus_function(an_call.elements[k].pressure) > an_call.dT
          /\ an_ret.Q_temperature[k] < an_call.elements[k].temperature
    /\ \E k \in DOMAIN an_call.elements :
          /\ an_call.elements[k].temperature
                 - T_solidus_function(an_call.elements[k].pressure) = an_call.dT
          /\ an_ret.Q_temperature[k] = an_call.elements[k].temperature

\* C4: for every element, a negative invQ_P = (1 - lambda)/Q_K + lambda/Q_S
\* is replaced by 0, Q_P is +infinity and the anelastic V_P is the elastic
\* one; otherwise Q_P = 1/invQ_P (+infinity for invQ_P = 0); and the batched
\* call gives each element the invQ_P and Q_P of the scalar call on it.
C4_ClampPerElement ==
    an_call.kind # "none" =>
        \A k \in DOMAIN an_call.elements :
            LET raw    == Elem(an_ret.raw_invQP, k)
                scalar == ScalarOn(k)
            IN  /\ raw = invQP_of(lmda(an_call.elements[k].elastic_Vp,
                                        an_call.elements[k].elastic_Vs),
                                   RInv(Elem(an_ret.Q_K, k)),
                                   RInv(Elem(an_ret.Q_S, k)))
                /\ IF RLt(raw, RZero)
                   THEN /\ Elem(an_ret.invQP, k) = RZero
                        /\ Elem(an_ret.Q_P, k) = RInf
                        /\ Elem(an_ret.V_P, k) = RInt(an_call.elements[k].elastic_Vp)
                   ELSE /\ Elem(an_ret.invQP, k) = raw
                        /\ Elem(an_ret.Q_P, k) = RInv(raw)
                /\ Elem(an_ret.invQP, k) = scalar.invQP
                /\ Elem(an_ret.Q_P, k) = scalar.Q_P

\* C4's case: a batch holding an element with a negative invQ_P and one
\* with invQ_P = 0, both with Q_P = +infinity.
C4_Witness ==
    /\ an_call.kind = "array"
    /\ \E k \in DOMAIN an_call.elements :
          RLt(an_ret.raw_invQP[k], RZero) /\ an_ret.Q_P[k] = RInf
    /\ \E k \in DOMAIN an_call.elements :
          an_ret.raw_invQP[k] = RZero /\ an_ret.Q_P[k] = RInf

\* a batch holding an element whose invQ_P is positive and finite
C4_WitnessPositive ==
    /\ an_call.kind = "array"
    /\ \E k \in DOMAIN an_call.elements :
          RLt(RZero, an_ret.raw_invQP[k]) /\ an_ret.Q_P[k] = RInv(an_ret.raw_invQP[k])

---------------------------------------------------------------------------
(* Claims about SeismicLookupTable.                                        *)

\* the promoted arguments of the last query
QPress == Promote(q_call.press)
QTemps == Promote(q_call.temps)
RowsAt(p, t) == {r \in DOMAIN table : table[r][1] = p /\ table[r][2] = t}

\* C5: from a table that keeps the ordering invariant, construction gives
\* each field a grid of n_uniq_t rows and n_uniq_p columns whose cell
\* [j, i] is the field value of the one table row with pressure pres[i]
\* and temperature temp[j], the row i * pstep + j with pstep = n_uniq_t.
C5_GridFromRows ==
    (self.status # "unbuilt" /\ IsWellFormed(table)) =>
        /\ self.status = "built"
        /\ self.pstep = self.n_uniq_t
        /\ \A f \in Fields :
              /\ Len(self.fields[f]) = self.n_uniq_t
              /\ \A j \in 1..self.n_uniq_t :
                    /\ Len(self.fields[f][j]) = self.n_uniq_p
                    /\ \A i \in 1..self.n_uniq_p :
                          /\ RowsAt(self.pres[i], self.temp[j])
                                 = {(i - 1) * self.pstep + j}
                          /\ \A r \in RowsAt(self.pres[i], self.temp[j]) :
                                self.fields[f][j][i] = table[r][FieldColumn(f)]

\* C5's case: a table of three pressures and two temperatures, built.
C5_Witness ==
    /\ self.status = "built"
    /\ IsWellFormed(table)
    /\ self.n_uniq_p = 3
    /\ self.n_uniq_t = 2
    /\ self.fields["vp"][2][3] = table[6][3]
    /\ self.fields["vp"][2][1] # self.fields["vp"][1][2]

\* C6: construction fails whenever the row count differs from
\* n_uniq_p * n_uniq_t or a pressure block's temperatures differ from
\* another's: no malformed table is turned into grids.  (Any failure is
\* taken for the MalformedTableError of the claim.)
C6_MalformedRejected ==
    (self.status # "unbuilt" /\ ~IsWellFormed(table)) => self.status # "built"

\* C7: interp_points fails whenever len(pressures) # len(temperatures),
\* temperatures shorter or longer, and returns one value per pair
\* otherwise.  (Any failure is taken for the DimensionMismatchError of the
\* claim.)
C7_LengthMismatchFails ==
    q_call.op = "interp_points" =>
        IF Len(QPress) = Len(QTemps)
        THEN q_ret.status = "ok" /\ Len(q_ret.data) = Len(QPress)
        ELSE q_ret.status # "ok"

\* the messages a query must print
Expected(msg) ==
    IF msg = <<"pressure", "exceeds">> THEN \E k \in DOMAIN QPress : QPress[k] > self.p_max
    ELSE IF msg = <<"pressure", "below">> THEN \E k \in DOMAIN QPress : QPress[k] < self.p_min
    ELSE IF msg = <<"temperature", "exceeds">> THEN \E k \in DOMAIN QTemps : QTemps[k] > self.t_max
    ELSE \E k \in DOMAIN QTemps : QTemps[k] < self.t_min
Messages == {"pressure", "temperature"} \X {"exceeds", "below"}
IsFinite(a) == a[2] # 0
AllFinite(ret) ==
    IF ret.ndim = 1 THEN \A k \in DOMAIN ret.data : IsFinite(ret.data[k])
    ELSE \A j \in DOMAIN ret.data : \A i \in DOMAIN ret.data[j] : IsFinite(ret.data[j][i])

\* C8: a query prints one warning for each bound some input violates
\* (above the maximum and below the minimum, of the pressures and of the
\* temperatures, each on its own), prints none when every input is within
\* the table's range, bounds included, and still returns a finite result:
\* nothing is raised because of an out-of-range value (only interp_points
\* with fewer temperatures than pressures fails, whatever the values).
C8_BoundsWarnOnly ==
    q_call.op # "none" =>
        /\ \A msg \in Messages : (msg \in Range(printed)) <=> Expected(msg)
        /\ Len(printed) = Cardinality(Range(printed))
        /\ (q_call.op = "interp_grid" \/ Len(QTemps) >= Len(QPress)) =>
              (q_ret.status = "ok" /\ AllFinite(q_ret))

\* C8's case: a list of pressures, one below and one above the table, with
\* a float temperature equal to the table's maximum: two warnings, both
\* about pressure, and a result.
C8_Witness ==
    /\ q_call.op = "interp_grid"
    /\ q_call.temps.type = "float"
    /\ QTemps[1] = self.t_max
    /\ Len(QPress) = 2
    /\ QPress[1] < self.p_min
    /\ QPress[2] > self.p_max
    /\ printed = << <<"pressure", "exceeds">>, <<"pressure", "below">> >>
    /\ q_ret.status = "ok"

\* C9: interp_points at one grid node (pres[i], temp[j]) returns exactly
\* the field's grid cell [j, i], which is the table entry of the row with
\* that pressure and temperature.
C9_NodeExact ==
    (/\ q_call.op = "interp_points"
     /\ Len(QPress) = 1
     /\ Len(QTemps) = 1) =>
        \A i \in 1..self.n_uniq_p, j \in 1..self.n_uniq_t :
            (QPress[1] = self.pres[i] /\ QTemps[1] = self.temp[j]) =>
                /\ q_ret.status = "ok"
                /\ q_ret.data = <<RInt(self.fields[q_call.field][j][i])>>
                /\ \A r \in RowsAt(self.pres[i], self.temp[j]) :
                      q_ret.data[1] = RInt(table[r][FieldColumn(q_call.field)])

\* C9's case: the middle node of a table of three pressures and three
\* temperatures, asked with lists of one.
C9_Witness ==
    /\ q_call.op = "interp_points"
    /\ q_call.press = [type |-> "list", v |-> <<PValue(2)>>]
    /\ q_call.temps = [type |-> "list", v |-> <<TValue(2)>>]
    /\ self.n_uniq_p = 3
    /\ self.n_uniq_t = 3
    /\ q_ret.data = <<RInt(table[5][FieldColumn(q_call.field)])>>

InBounds ==
    /\ \A k \in DOMAIN QPress : self.p_min <= QPress[k] /\ QPress[k] <= self.p_max
    /\ \A k \in DOMAIN QTemps : self.t_min <= QTemps[k] /\ QTemps[k] <= self.t_max

\* C10: interp_grid returns a 2-D array of len(temperatures) rows and
\* len(pressures) columns, and for one in-bounds (p, t) its cell [0, 0] is
\* the value interp_points returns for ([p], [t]).
C10_GridMatchesPoints ==
    (q_call.op = "interp_grid" /\ InBounds) =>
        /\ q_ret.ndim = 2
        /\ Len(q_ret.data) = Len(QTemps)
        /\ \A j \in DOMAIN q_ret.data : Len(q_ret.data[j]) = Len(QPress)
        /\ (Len(QPress) = 1 /\ Len(QTemps) = 1) =>
              q_ret.data[1][1] =
                  interp_points(self, QPress, QTemps, q_call.field).data[1]

---------------------------------------------------------------------------
(* Claims about what a query leaves behind.                                *)

AnArguments == {"elastic_Vp", "elastic_Vs", "pressure", "temperature"}

\* the last anelastic_properties call, made again on the caller's arrays
\* as they are now
AnRepeated ==
    IF an_call.kind = "scalar"
    THEN anelastic_properties_scalar(an_inputs.elastic_Vp[1], an_inputs.elastic_Vs[1],
             an_inputs.pressure[1], an_inputs.temperature[1],
             an_call.frequency, an_call.dT)
    ELSE anelastic_properties_array(an_inputs.elastic_Vp, an_inputs.elastic_Vs,
             an_inputs.pressure, an_inputs.temperature,
             an_call.frequency, an_call.dT)

\* the last lookup-table query, made again on the caller's arguments as
\* they are now
QueryRepeated ==
    IF q_call.op = "interp_grid"
    THEN interp_grid(self, Promote(q_inputs.press), Promote(q_inputs.temps), q_call.field)
    ELSE interp_points(self, Promote(q_inputs.press), Promote(q_inputs.temps), q_call.field)

\* C12: a query changes nothing but its return value and its warnings.
\* After any sequence of interp_grid and interp_points calls the table's
\* axes and grids are those construction made; after any
\* anelastic_properties call, scalar or batched, the caller's pressure,
\* temperature, elastic_Vp and elastic_Vs hold what was passed and the
\* engine its Q_models; and the same call made again returns the same.
C12_QueriesChangeNothing ==
    /\ self = SeismicLookupTable(table)
    /\ engine.Q_models = Q_models
    /\ q_call.op # "none" =>
          /\ q_inputs = [press |-> q_call.press, temps |-> q_call.temps]
          /\ q_ret = QueryRepeated
    /\ an_call.kind # "none" =>
          /\ \A a \in AnArguments : an_inputs[a] = Column(an_call.elements, a)
          /\ an_ret = AnRepeated

\* C12's case: a batched call with a frozen element and a clamped invQ_P,
\* after which the caller's temperatures are the ones passed.
C12_Witness ==
    /\ an_call.kind = "array"
    /\ \E k \in DOMAIN an_call.elements :
          an_ret.Q_temperature[k] < an_call.elements[k].temperature
    /\ \E k \in DOMAIN an_call.elements :
          RLt(an_ret.raw_invQP[k], RZero) /\ an_ret.invQP[k] = RZero
    /\ an_inputs.temperature = Column(an_call.elements, "temperature")

===========================================================================
